---- MODULE Spec2Model ----
(***************************************************************************)
(* The MCP stdio-to-daemon bridge of chithien0909/code-indexer, in its     *)
(* three variants:                                                         *)
(*   "bridge"   src/mcp-stdio-bridge.py            (class MCPStdioBridge)  *)
(*   "wrapper"  src/mcp-stdio-wrapper.py           (class MCPStdioWrapper) *)
(*   "package"  src/python/mcp_code_indexer/__init__.py (main, serve)      *)
(*                                                                         *)
(* One bridge process is modelled: its main flow (run), the signal handler *)
(* that Python runs on the main thread between two steps of the main flow, *)
(* the daemon subprocess it spawns, whatever answers on port 9991, and the *)
(* client on stdin/stdout.                                                 *)
(*                                                                         *)
(* JSON objects (Python dicts) are functions from string keys to values;   *)
(* dict.get(k, default) is Get.  Python's None is the string "None".       *)
(* Of stdout the model keeps the lines written for the current input line. *)
(***************************************************************************)
EXTENDS Integers, Sequences, FiniteSets, TLC

(***************************************************************************)
(* Bounds of the model.                                                    *)
(***************************************************************************)
MaxLines == 2        \* input lines the client sends before end of input
MaxSignals == 2      \* SIGINT/SIGTERM deliveries in one run
MaxTools == 2        \* tool records in one daemon catalogue reply

(***************************************************************************)
(* Program constants.                                                      *)
(***************************************************************************)
BridgeProbes == 60       \* for i in range(60)
WrapperProbes == 30      \* for _ in range(30)
PackageProbes == 60      \* for i in range(60)
InternalErrorCode == -32603
MethodNotFoundCode == -32601

Variants == {"bridge", "wrapper", "package"}

None == "None"

\* dict.get(key, default)
Get(d, k, default) == IF k \in DOMAIN d THEN d[k] ELSE default

\* The dict with no keys.
EmptyDict == [k \in {} |-> None]

\* d restricted to the keys in ks: the JSON objects with any subset of keys.
Restrict(d, ks) == [k \in ks |-> d[k]]

(***************************************************************************)
(* Input lines.  A line is blank, not JSON, JSON that is no object, or a   *)
(* JSON object, the request.  params is absent, not a dict, or a dict with *)
(* any of the keys name and arguments.  An argument mapping is a set of    *)
(* <<key, value>> pairs.                                                   *)
(***************************************************************************)
IdValues == {"1", "2"}
MethodValues == {"initialize", "tools/list", "tools/call", "ping"}
RecognizedMethods == {"initialize", "tools/list", "tools/call"}

NoArguments == {}
SearchArguments == {<<"q", "foo">>}

FullParams == [name |-> "search", arguments |-> SearchArguments]
ParamsDicts == {Restrict(FullParams, ks) : ks \in SUBSET {"name", "arguments"}}
ParamsValues == {[t |-> "nondict"]} \cup {[t |-> "dict", d |-> p] : p \in ParamsDicts}

\* Requests without params, and tools/call requests with every params value.
PlainRequests ==
    UNION {{Restrict([id |-> i, method |-> m], ks) : ks \in SUBSET {"id", "method"}} :
           <<i, m>> \in IdValues \X MethodValues}
CallRequests ==
    UNION {{[id |-> i, method |-> "tools/call", params |-> p],
            [method |-> "tools/call", params |-> p]} :
           <<i, p>> \in IdValues \X ParamsValues}
Requests == PlainRequests \cup CallRequests

Lines ==
    {[t |-> "blank"], [t |-> "badjson"], [t |-> "nonobject"]}
    \cup {[t |-> "object", req |-> r] : r \in Requests}

(***************************************************************************)
(* What the daemon's HTTP endpoints can answer.  An outcome is a transport *)
(* fault (no HTTP response: connection refused, timeout) or a response     *)
(* with a status and a body; a body is not JSON, JSON that is no object,   *)
(* or a JSON object.                                                       *)
(***************************************************************************)
EmptySchema == [type |-> "object", properties |-> {}, required |-> <<>>]
SearchSchema == [type |-> "object", properties |-> {"q"}, required |-> <<"q">>]

FullTool == [name |-> "search", description |-> "Search code", input_schema |-> SearchSchema]
ToolRecords ==
    {Restrict(FullTool, ks) : ks \in {{"name", "description", "input_schema"}, {"name"}}}

RECURSIVE SeqsUpTo(_, _)
SeqsUpTo(S, n) ==
    IF n = 0 THEN {<<>>}
    ELSE LET shorter == SeqsUpTo(S, n - 1)
         IN shorter \cup {Append(s, x) : s \in {q \in shorter : Len(q) = n - 1}, x \in S}

ToolLists == SeqsUpTo(ToolRecords, MaxTools)

ResultValues == {"nohits", "text"}

ErrorBody == [t |-> "dict", d |-> [error |-> "daemon error"]]
ToolsBodies ==
    {[t |-> "dict", d |-> [tools |-> l]] : l \in ToolLists}
    \cup {[t |-> "dict", d |-> EmptyDict], ErrorBody, [t |-> "nondict"], [t |-> "notjson"]}
CallBodies ==
    {[t |-> "dict", d |-> [result |-> v]] : v \in ResultValues}
    \cup {[t |-> "dict", d |-> EmptyDict], ErrorBody, [t |-> "nondict"], [t |-> "notjson"]}

TransportFaults == {[t |-> "fault", cause |-> c] : c \in {"refused", "timeout"}}
HttpResponses(bodies) ==
    {[t |-> "http", status |-> 200, body |-> b] : b \in bodies}
    \cup {[t |-> "http", status |-> 500, body |-> b] : b \in {ErrorBody, [t |-> "notjson"]}}

\* Outcomes when something is listening on the port, and when nothing is.
UpOutcomes(bodies) == TransportFaults \cup HttpResponses(bodies)
DownOutcomes == {[t |-> "fault", cause |-> "refused"]}

(***************************************************************************)
(* JSON-RPC responses.  A message f"<prefix>{cause}" is <<prefix, cause>>. *)
(***************************************************************************)
Success(id, result) == [jsonrpc |-> "2.0", id |-> id, result |-> result]
\* Mutation of Failure: the error response also carries a null result.
Failure_WithResult(id, code, prefix, cause) ==
    [jsonrpc |-> "2.0", id |-> id, result |-> None,
     error |-> [code |-> code, message |-> <<prefix, cause>>]]

Failure(id, code, prefix, cause) ==
    [jsonrpc |-> "2.0", id |-> id, error |-> [code |-> code, message |-> <<prefix, cause>>]]

InitializeResult ==
    [protocolVersion |-> "2024-11-05",
     capabilities |-> [tools |-> EmptyDict],
     serverInfo |-> [name |-> "Code Indexer", version |-> "1.1.0"]]

\* json.dumps(value, indent=2) of the result values the daemon returns here:
\* {} , {"hits": []} and the string "ok".
JsonDumpsIndent2(v) ==
    CASE v = "empty" -> "{}"
      [] v = "nohits" -> "{\n  \"hits\": []\n}"
      [] v = "text" -> "\"ok\""

TextContent(v) == [content |-> <<[type |-> "text", text |-> JsonDumpsIndent2(v)]>>]

(***************************************************************************)
(* http_request of the bridge and the package: every fault (no response,   *)
(* a status urllib raises for, a body that is not JSON) becomes the dict   *)
(* {"error": str(e)}; otherwise the parsed body is returned as it is.      *)
(***************************************************************************)
http_request(outcome) ==
    IF outcome.t = "fault" THEN [t |-> "dict", d |-> [error |-> outcome.cause]]
    ELSE IF outcome.status # 200 THEN [t |-> "dict", d |-> [error |-> "HTTP Error"]]
    ELSE IF outcome.body.t = "notjson" THEN [t |-> "dict", d |-> [error |-> "JSONDecodeError"]]
    ELSE outcome.body

(***************************************************************************)
(* initialize.  The bridge's handler also sets self.initialized (the       *)
(* Dispatch action does that); the descriptor never reads it.              *)
(***************************************************************************)
\* Mutation of handle_initialize: a session already initialized is refused.
handle_initialize_Once(request, initialized) ==
    IF initialized
    THEN Failure(Get(request, "id", None), InternalErrorCode, "Already initialized", "")
    ELSE Success(Get(request, "id", None), InitializeResult)

handle_initialize(request, initialized) ==
    Success(Get(request, "id", None), InitializeResult)

(***************************************************************************)
(* tools/list, one operator per variant.                                   *)
(***************************************************************************)
McpTool(tool) ==
    [name |-> Get(tool, "name", ""),
     description |-> Get(tool, "description", ""),
     inputSchema |-> Get(tool, "input_schema", EmptySchema)]

bridge_handle_tools_list(request, outcome) ==
    LET tools_data == http_request(outcome)
        id == Get(request, "id", None)
    IN IF tools_data.t # "dict"
       THEN Failure(id, InternalErrorCode, "Failed to get tools: ", "AttributeError")
       ELSE IF "error" \in DOMAIN tools_data.d
       THEN Failure(id, InternalErrorCode, "Failed to get tools: ", tools_data.d["error"])
       ELSE LET tools == Get(tools_data.d, "tools", <<>>)
            IN Success(id, [tools |-> [i \in 1..Len(tools) |-> McpTool(tools[i])]])

wrapper_handle_tools_list(request, outcome) ==
    LET id == Get(request, "id", None)
    IN IF outcome.t = "fault"
       THEN Failure(id, InternalErrorCode, "Failed to get tools: ", outcome.cause)
       ELSE IF outcome.status # 200
       THEN Failure(id, InternalErrorCode, "Failed to get tools: ", "API returned status")
       ELSE IF outcome.body.t = "notjson"
       THEN Failure(id, InternalErrorCode, "Failed to get tools: ", "JSONDecodeError")
       ELSE IF outcome.body.t # "dict"
       THEN Failure(id, InternalErrorCode, "Failed to get tools: ", "AttributeError")
       ELSE Success(id, [tools |-> Get(outcome.body.d, "tools", <<>>)])

package_handle_tools_list(request, outcome) ==
    LET tools_data == http_request(outcome)
        id == Get(request, "id", None)
    IN IF tools_data.t # "dict"
       THEN Success(id, [tools |-> <<>>])
       ELSE Success(id, [tools |-> Get(tools_data.d, "tools", <<>>)])

(***************************************************************************)
(* tools/call.  params.get on a params that is no dict raises inside the   *)
(* handler's try before any HTTP call is made.                             *)
(***************************************************************************)
ParamsOf(request) == Get(request, "params", [t |-> "dict", d |-> EmptyDict])

\* Mutation of call_data: the tool name is read from params.tool.
call_data_WrongKey(request) ==
    [tool |-> Get(ParamsOf(request).d, "tool", None),
     arguments |-> Get(ParamsOf(request).d, "arguments", NoArguments)]

\* The body POSTed to /api/call.
call_data(request) ==
    [tool |-> Get(ParamsOf(request).d, "name", None),
     arguments |-> Get(ParamsOf(request).d, "arguments", NoArguments)]

\* Mutation of bridge_handle_tool_call: the error response of the except
\* clause carries id null instead of the request's id.
bridge_handle_tool_call_NullId(request, outcome) ==
    LET id == Get(request, "id", None)
    IN IF ParamsOf(request).t # "dict"
       THEN Failure(None, InternalErrorCode, "Tool call failed: ", "AttributeError")
       ELSE LET result_data == http_request(outcome)
            IN IF result_data.t # "dict"
               THEN Failure(None, InternalErrorCode, "Tool call failed: ", "AttributeError")
               ELSE IF "error" \in DOMAIN result_data.d
               THEN Failure(None, InternalErrorCode, "Tool call failed: ", result_data.d["error"])
               ELSE Success(id, TextContent(Get(result_data.d, "result", "empty")))

bridge_handle_tool_call(request, outcome) ==
    LET id == Get(request, "id", None)
    IN IF ParamsOf(request).t # "dict"
       THEN Failure(id, InternalErrorCode, "Tool call failed: ", "AttributeError")
       ELSE LET result_data == http_request(outcome)
            IN IF result_data.t # "dict"
               THEN Failure(id, InternalErrorCode, "Tool call failed: ", "AttributeError")
               ELSE IF "error" \in DOMAIN result_data.d
               THEN Failure(id, InternalErrorCode, "Tool call failed: ", result_data.d["error"])
               ELSE Success(id, TextContent(Get(result_data.d, "result", "empty")))

wrapper_handle_tool_call(request, outcome) ==
    LET id == Get(request, "id", None)
    IN IF ParamsOf(request).t # "dict"
       THEN Failure(id, InternalErrorCode, "Tool call failed: ", "AttributeError")
       ELSE IF outcome.t = "fault"
       THEN Failure(id, InternalErrorCode, "Tool call failed: ", outcome.cause)
       ELSE IF outcome.status # 200
       THEN Failure(id, InternalErrorCode, "Tool call failed: ", "API returned status")
       ELSE IF outcome.body.t = "notjson"
       THEN Failure(id, InternalErrorCode, "Tool call failed: ", "JSONDecodeError")
       ELSE IF outcome.body.t # "dict"
       THEN Failure(id, InternalErrorCode, "Tool call failed: ", "AttributeError")
       ELSE Success(id, TextContent(Get(outcome.body.d, "result", "empty")))

package_handle_tool_call(request, outcome) ==
    LET id == Get(request, "id", None)
    IN IF ParamsOf(request).t # "dict"
       THEN Failure(id, InternalErrorCode, "Tool call failed: ", "AttributeError")
       ELSE LET result_data == http_request(outcome)
            IN IF result_data.t # "dict"
               THEN Failure(id, InternalErrorCode, "Tool call failed: ", "AttributeError")
               ELSE Success(id, TextContent(Get(result_data.d, "result", "empty")))

(***************************************************************************)
(* handle_request: the dispatch on method.  outcome is the answer to the   *)
(* one HTTP call the handler makes, when it makes one (NeedsHttp).         *)
(***************************************************************************)
MethodOf(request) == Get(request, "method", None)

\* Mutation of method_not_found: the internal-error code is used.
method_not_found_WrongCode(request) ==
    Failure(Get(request, "id", None), InternalErrorCode, "Method not found: ", MethodOf(request))

method_not_found(request) ==
    Failure(Get(request, "id", None), MethodNotFoundCode, "Method not found: ", MethodOf(request))

\* Mutation of NeedsHttp: initialize also asks the daemon.
NeedsHttp_OnInitialize(request) ==
    \/ MethodOf(request) \in {"initialize", "tools/list"}
    \/ MethodOf(request) = "tools/call" /\ ParamsOf(request).t = "dict"

NeedsHttp(request) ==
    \/ MethodOf(request) = "tools/list"
    \/ MethodOf(request) = "tools/call" /\ ParamsOf(request).t = "dict"

\* Mutation of handle_tools_list: the answer comes from a catalogue kept
\* from start-up (an empty one), not from this request's fetch.
handle_tools_list_Stale(v, request, outcome) ==
    Success(Get(request, "id", None), [tools |-> <<>>])

handle_tools_list(v, request, outcome) ==
    CASE v = "bridge" -> bridge_handle_tools_list(request, outcome)
      [] v = "wrapper" -> wrapper_handle_tools_list(request, outcome)
      [] v = "package" -> package_handle_tools_list(request, outcome)

handle_tool_call(v, request, outcome) ==
    CASE v = "bridge" -> bridge_handle_tool_call(request, outcome)
      [] v = "wrapper" -> wrapper_handle_tool_call(request, outcome)
      [] v = "package" -> package_handle_tool_call(request, outcome)

\* Mutation of handle_request: tools/list and tools/call are refused until
\* an initialize has been handled.
handle_request_RequiresInit(v, request, initialized, outcome) ==
    CASE MethodOf(request) = "initialize" -> handle_initialize(request, initialized)
      [] MethodOf(request) \in {"tools/list", "tools/call"} /\ ~initialized ->
            Failure(Get(request, "id", None), InternalErrorCode, "Not initialized", "")
      [] MethodOf(request) = "tools/list" -> handle_tools_list(v, request, outcome)
      [] MethodOf(request) = "tools/call" -> handle_tool_call(v, request, outcome)
      [] OTHER -> method_not_found(request)

handle_request(v, request, initialized, outcome) ==
    CASE MethodOf(request) = "initialize" -> handle_initialize(request, initialized)
      [] MethodOf(request) = "tools/list" -> handle_tools_list(v, request, outcome)
      [] MethodOf(request) = "tools/call" -> handle_tool_call(v, request, outcome)
      [] OTHER -> method_not_found(request)

\* Mutation of internal_error: the method-not-found code is used.
internal_error_WrongCode(cause) == Failure(None, MethodNotFoundCode, "Internal error: ", cause)

\* run's "except Exception" around a parsed line: a JSON value that is no
\* object has no .get, and the fault is answered with id null.
internal_error(cause) == Failure(None, InternalErrorCode, "Internal error: ", cause)

(***************************************************************************)
(* State.                                                                  *)
(*   variant         which of the three scripts runs                       *)
(*   stubborn        the daemon binary ignores SIGTERM and never exits     *)
(*   foreign         another process already listens on port 9991          *)
(*   pc              where the main flow of run() stands                   *)
(*   daemon_process  self.daemon_process: None or the Popen handle         *)
(*   proc            the spawned child: "none", "running", "dead" (exited, *)
(*                   returncode not yet collected), "reaped"               *)
(*   attempt         completed iterations of the health poll loop, while   *)
(*                   start_daemon() runs; 0 once it has returned           *)
(*   initialized     self.initialized (the bridge's flag)                  *)
(*   line            the input line being handled, or the last one handled *)
(*   prev_kind       what the input line before `line` was: "skipped"      *)
(*                   (blank or not JSON), "initialize", "other", or "none" *)
(*   prev_tools      how many tool records the daemon advertised in its    *)
(*                   reply to the input line before `line`, when that line *)
(*                   was a tools/list the daemon answered; -1 otherwise    *)
(*   http            the HTTP call in flight to the daemon, if any         *)
(*   http_calls      daemon HTTP calls issued so far for `line`            *)
(*   reply           how the HTTP call made for `line` ended, if one was   *)
(*   written         response lines written for `line`                     *)
(*   stdout_open     the client still reads the bridge's stdout            *)
(*   lines_read      input lines read from stdin                           *)
(*   unwinding       the exception propagating out of the request loop     *)
(*   exit_code       the status the process exited with, -1 while it runs  *)
(*   start_result    what start_daemon() returned                          *)
(*   signals         SIGINT/SIGTERM deliveries the handler has run for     *)
(*   term_sent       terminate signals actually sent to the child          *)
(*   stop_calls      entries into stop_daemon(), from either flow          *)
(***************************************************************************)
VARIABLES variant, stubborn, foreign, pc, daemon_process, proc, attempt, initialized,
          line, prev_kind, prev_tools, http, http_calls, reply, written, stdout_open,
          lines_read, unwinding,
          exit_code, start_result, signals, term_sent, stop_calls

vars == <<variant, stubborn, foreign, pc, daemon_process, proc, attempt, initialized,
          line, prev_kind, prev_tools, http, http_calls, reply, written, stdout_open,
          lines_read, unwinding,
          exit_code, start_result, signals, term_sent, stop_calls>>

envVars == <<variant, stubborn, foreign>>
ioVars == <<line, prev_kind, prev_tools, http, http_calls, reply, written, lines_read>>

NoLine == [t |-> "none"]
NoHttp == [path |-> "none"]
NoOutcome == [t |-> "none"]

\* Mutation of ProbeLimit: the wrapper polls as long as the bridge does.
ProbeLimit_Same(v) == BridgeProbes

ProbeLimit(v) ==
    CASE v = "bridge" -> BridgeProbes
      [] v = "wrapper" -> WrapperProbes
      [] v = "package" -> PackageProbes

\* Something answers HTTP on port 9991: the spawned daemon, or a foreign one.
ServerUp == foreign \/ proc = "running"

Init ==
    /\ variant \in Variants
    /\ stubborn \in BOOLEAN
    /\ foreign \in BOOLEAN
    /\ pc = "constructed"
    /\ daemon_process = None
    /\ proc = "none"
    /\ attempt = 0
    /\ initialized = FALSE
    /\ line = NoLine
    /\ prev_kind = "none"
    /\ prev_tools = -1
    /\ http = NoHttp
    /\ http_calls = 0
    /\ reply = NoOutcome
    /\ written = <<>>
    /\ stdout_open = TRUE
    /\ lines_read = 0
    /\ unwinding = "none"
    /\ exit_code = -1
    /\ start_result = "pending"
    /\ signals = 0
    /\ term_sent = 0
    /\ stop_calls = 0

(***************************************************************************)
(* run(): signal.signal(SIGINT, ...), signal.signal(SIGTERM, ...).         *)
(***************************************************************************)
InstallHandlers ==
    /\ pc = "constructed"
    /\ pc' = "spawn"
    /\ UNCHANGED <<envVars, ioVars, daemon_process, proc, attempt, initialized, stdout_open,
                   unwinding, exit_code, start_result, signals, term_sent, stop_calls>>

(***************************************************************************)
(* start_daemon() returned False: run() returns 1 and the process exits.   *)
(* Nothing on this path calls stop_daemon().                               *)
(***************************************************************************)
\* Mutation of run_start_failed: the check of start_daemon()'s result is
\* lost and run() goes on into the request loop.
run_start_failed_Ignored ==
    /\ pc' = "read"
    /\ UNCHANGED exit_code

\* run(): if not self.start_daemon(): ...; return 1
run_start_failed ==
    /\ pc' = "exited"
    /\ exit_code' = 1

StartFailed ==
    /\ start_result' = "failed"
    /\ attempt' = 0
    /\ run_start_failed

(***************************************************************************)
(* start_daemon(): subprocess.Popen(cmd, ...).  It raises when the command *)
(* cannot be run (the package's get_binary_path() raises when there is no  *)
(* binary); "except Exception" returns False.                              *)
(***************************************************************************)
\* Mutation of Spawn: the request loop starts a new daemon when it finds that
\* the one it spawned has exited.
Spawn_Again ==
    /\ \/ pc = "spawn"
       \/ pc = "read" /\ proc = "dead"
    /\ \/ /\ daemon_process' = "Popen"
          /\ proc' = "running"
          /\ pc' = "probe"
          /\ UNCHANGED <<attempt, start_result, exit_code>>
       \/ /\ pc = "spawn"
          /\ StartFailed
          /\ UNCHANGED <<daemon_process, proc>>
    /\ UNCHANGED <<envVars, ioVars, initialized, stdout_open, unwinding,
                   signals, term_sent, stop_calls>>

Spawn ==
    /\ pc = "spawn"
    /\ \/ /\ daemon_process' = "Popen"
          /\ proc' = "running"
          /\ pc' = "probe"
          /\ UNCHANGED <<attempt, start_result, exit_code>>
       \/ /\ StartFailed
          /\ UNCHANGED <<daemon_process, proc>>
    /\ UNCHANGED <<envVars, ioVars, initialized, stdout_open, unwinding,
                   signals, term_sent, stop_calls>>

(***************************************************************************)
(* One iteration of the poll loop up to the health probe's answer:         *)
(*   "ok"      HTTP 200: return True                                       *)
(*   "status"  a response that is not 200 and raises nothing: next round   *)
(*   "error"   the probe raised: the bare "except:" goes to time.sleep     *)
(***************************************************************************)
ProbeOutcomes == IF ServerUp THEN {"ok", "status", "error"} ELSE {"error"}

NextAttempt ==
    IF attempt + 1 < ProbeLimit(variant)
    THEN /\ attempt' = attempt + 1
         /\ pc' = "probe"
         /\ UNCHANGED <<start_result, exit_code>>
    ELSE StartFailed

Probe ==
    /\ pc = "probe"
    /\ \E o \in ProbeOutcomes :
          \/ /\ o = "ok"
             /\ start_result' = "ok"
             /\ pc' = "read"
             /\ attempt' = 0
             /\ UNCHANGED exit_code
          \/ /\ o = "status"
             /\ NextAttempt
          \/ /\ o = "error"
             /\ pc' = "sleep"
             /\ UNCHANGED <<attempt, start_result, exit_code>>
    /\ UNCHANGED <<envVars, ioVars, daemon_process, proc, initialized, stdout_open,
                   unwinding, signals, term_sent, stop_calls>>

\* time.sleep(...) in the except clause, then the next iteration.
Sleep ==
    /\ pc = "sleep"
    /\ NextAttempt
    /\ UNCHANGED <<envVars, ioVars, daemon_process, proc, initialized, stdout_open,
                   unwinding, signals, term_sent, stop_calls>>

(***************************************************************************)
(* The request loop: "for line in sys.stdin".                              *)
(***************************************************************************)
\* print(json.dumps(response)); sys.stdout.flush().  When the client has
\* closed the pipe the print raises, "except Exception" prints the error
\* response, which raises again and leaves the loop through "finally".
\* The request loop is left for run()'s "finally"; what the model keeps of
\* the line in hand goes with it.
LeaveLoop(exception) ==
    /\ pc' = "stop"
    /\ unwinding' = exception
    /\ line' = NoLine
    /\ prev_kind' = "none"
    /\ prev_tools' = -1
    /\ http_calls' = 0
    /\ written' = <<>>

\* Mutation of Write: the response is printed but stdout is not flushed, so
\* the line has not reached the client when the loop goes on.
Write_Unflushed(response, outcome) ==
    IF stdout_open
    THEN /\ written' = written
         /\ reply' = outcome
         /\ pc' = "read"
         /\ UNCHANGED <<line, prev_kind, prev_tools, http_calls, unwinding>>
    ELSE /\ LeaveLoop("fault")
         /\ reply' = NoOutcome

Write(response, outcome) ==
    IF stdout_open
    THEN /\ written' = Append(written, response)
         /\ reply' = outcome
         /\ pc' = "read"
         /\ UNCHANGED <<line, prev_kind, prev_tools, http_calls, unwinding>>
    ELSE /\ LeaveLoop("fault")
         /\ reply' = NoOutcome

\* Mutation of Skipped: JSONDecodeError is not caught on its own, and a line
\* that is not JSON falls to "except Exception".
Skipped_BlankOnly(l) == l.t = "blank"

\* blank after strip(), or json.loads raised JSONDecodeError: "continue"
Skipped(l) == l.t \in {"blank", "badjson"}

\* The number of tool records in the daemon's reply r to line l, when l is
\* a tools/list the daemon answered with a catalogue; -1 otherwise.
CatalogueOf(l, r) ==
    IF /\ l.t = "object"
       /\ MethodOf(l.req) = "tools/list"
       /\ r.t = "http"
       /\ r.status = 200
       /\ r.body.t = "dict"
       /\ "error" \notin DOMAIN r.body.d
    THEN Len(Get(r.body.d, "tools", <<>>))
    ELSE -1

Kind(l) ==
    CASE l.t = "none" -> "none"
      [] Skipped(l) -> "skipped"
      [] l.t = "object" /\ Get(l.req, "method", None) = "initialize" -> "initialize"
      [] OTHER -> "other"

\* The next line of stdin, or its end.  line.strip() empty: continue.
\* json.loads raising JSONDecodeError: continue.
ReadLine ==
    /\ pc = "read"
    /\ \/ /\ LeaveLoop("none")
          /\ UNCHANGED lines_read
       \/ /\ lines_read < MaxLines
          /\ \E l \in Lines :
                /\ line' = l
                /\ pc' = IF Skipped(l) THEN "read" ELSE "handling"
          /\ prev_kind' = Kind(line)
          /\ prev_tools' = CatalogueOf(line, reply)
          /\ http_calls' = 0
          /\ lines_read' = lines_read + 1
          /\ written' = <<>>
          /\ UNCHANGED unwinding
    /\ reply' = NoOutcome
    /\ UNCHANGED <<envVars, http, daemon_process, proc, attempt, initialized,
                   stdout_open, exit_code, start_result, signals, term_sent, stop_calls>>

\* handle_request up to its HTTP call, or to the printed response when the
\* method makes none.
Dispatch ==
    /\ pc = "handling"
    /\ IF line.t # "object"
       THEN /\ Write(internal_error("AttributeError"), NoOutcome)
            /\ UNCHANGED <<http, initialized>>
       ELSE IF NeedsHttp(line.req)
       THEN /\ http' = IF MethodOf(line.req) = "tools/list"
                       THEN [path |-> "/api/tools"]
                       ELSE [path |-> "/api/call", data |-> call_data(line.req)]
            /\ pc' = "http"
            /\ http_calls' = http_calls + 1
            /\ UNCHANGED <<line, prev_kind, prev_tools, reply, written, unwinding, initialized>>
       ELSE /\ Write(handle_request(variant, line.req, initialized, NoOutcome), NoOutcome)
            /\ initialized' = (initialized \/
                               (variant = "bridge" /\ MethodOf(line.req) = "initialize"))
            /\ UNCHANGED http
    /\ UNCHANGED <<envVars, lines_read, daemon_process, proc, attempt, stdout_open,
                   exit_code, start_result, signals, term_sent, stop_calls>>

\* The daemon's answer (or the lack of one) ends the HTTP call; the handler
\* builds the response and run() prints it.
ReplyOutcomes ==
    IF ~ServerUp THEN DownOutcomes
    ELSE IF http.path = "/api/tools" THEN UpOutcomes(ToolsBodies)
    ELSE UpOutcomes(CallBodies)

\* Mutation of HttpReply: a daemon call that got no HTTP response is not
\* caught by the handler and propagates out of the request loop.
HttpReply_Raises ==
    /\ pc = "http"
    /\ \E o \in ReplyOutcomes :
          IF o.t = "fault"
          THEN LeaveLoop("fault") /\ reply' = NoOutcome
          ELSE Write(handle_request(variant, line.req, initialized, o), o)
    /\ http' = NoHttp
    /\ UNCHANGED <<envVars, lines_read, daemon_process, proc, attempt, initialized,
                   stdout_open, exit_code, start_result, signals, term_sent, stop_calls>>

\* Mutation of HttpReply: a daemon call that got no HTTP response is made
\* once more before the handler gives up.
HttpReply_Retries ==
    /\ pc = "http"
    /\ \E o \in ReplyOutcomes :
          IF o.t = "fault" /\ http_calls < 2
          THEN /\ http_calls' = http_calls + 1
               /\ UNCHANGED <<pc, line, prev_kind, prev_tools, http, reply, written, unwinding>>
          ELSE /\ Write(handle_request(variant, line.req, initialized, o), o)
               /\ http' = NoHttp
    /\ UNCHANGED <<envVars, lines_read, daemon_process, proc, attempt, initialized,
                   stdout_open, exit_code, start_result, signals, term_sent, stop_calls>>

HttpReply ==
    /\ pc = "http"
    /\ \E o \in ReplyOutcomes : Write(handle_request(variant, line.req, initialized, o), o)
    /\ http' = NoHttp
    /\ UNCHANGED <<envVars, lines_read, daemon_process, proc, attempt, initialized,
                   stdout_open, exit_code, start_result, signals, term_sent, stop_calls>>

\* The client goes away: later writes to stdout raise BrokenPipeError.
ClientClosesStdout ==
    /\ pc \in {"read", "handling", "http"}
    /\ stdout_open
    /\ stdout_open' = FALSE
    /\ UNCHANGED <<envVars, ioVars, pc, daemon_process, proc, attempt, initialized,
                   unwinding, exit_code, start_result, signals, term_sent, stop_calls>>

(***************************************************************************)
(* stop_daemon() in the main flow, from run()'s "finally".                 *)
(*                                                                         *)
(* Popen.terminate() collects the exit status of a child that has already  *)
(* exited and sends SIGTERM only to one that has not.  Popen.wait() with   *)
(* no timeout blocks in waitpid holding the handle's (non re-entrant)      *)
(* wait lock; wait(timeout=5) polls, taking the lock for each poll.        *)
(***************************************************************************)
\* run() is left: by "return 0", by SystemExit(0), or by a propagating fault.
StopReturn ==
    /\ pc' = "exited"
    /\ exit_code' = IF unwinding = "fault" THEN 1 ELSE 0

\* Where stop_daemon() waits after terminate().
WaitAfterTerminate(v) == IF v = "wrapper" THEN "wait_block" ELSE "wait_timed"

\* What stop_daemon() does after wait(timeout=5) raised TimeoutExpired and
\* kill() was sent: the bridge waits again, the package returns.
AfterKill(v) == IF v = "bridge" THEN "wait_block" ELSE "return"

StopBegin ==
    /\ pc = "stop"
    /\ stop_calls' = stop_calls + 1
    /\ IF daemon_process = None \/ proc # "running"
       THEN /\ proc' = IF proc = "dead" THEN "reaped" ELSE proc
            /\ StopReturn
            /\ UNCHANGED term_sent
       ELSE /\ term_sent' = term_sent + 1
            /\ pc' = WaitAfterTerminate(variant)
            /\ UNCHANGED <<proc, exit_code>>
    /\ UNCHANGED <<envVars, ioVars, daemon_process, attempt, initialized, stdout_open,
                   unwinding, start_result, signals>>

WaitTimed ==
    /\ pc = "wait_timed"
    /\ \/ /\ proc \in {"dead", "reaped"}
          /\ proc' = "reaped"
          /\ StopReturn
       \/ /\ proc = "running"
          /\ proc' = "dead"
          /\ IF AfterKill(variant) = "return"
             THEN StopReturn
             ELSE pc' = AfterKill(variant) /\ UNCHANGED exit_code
    /\ UNCHANGED <<envVars, ioVars, daemon_process, attempt, initialized, stdout_open,
                   unwinding, start_result, signals, term_sent, stop_calls>>

WaitBlock ==
    /\ pc = "wait_block"
    /\ proc = "dead"
    /\ proc' = "reaped"
    /\ StopReturn
    /\ UNCHANGED <<envVars, ioVars, daemon_process, attempt, initialized, stdout_open,
                   unwinding, start_result, signals, term_sent, stop_calls>>

\* The daemon exits: on SIGTERM, because it cannot bind the port, or by a
\* crash.  A stubborn daemon leaves only when killed.
DaemonExit ==
    /\ proc = "running"
    /\ ~stubborn
    /\ proc' = "dead"
    /\ UNCHANGED <<envVars, ioVars, pc, daemon_process, attempt, initialized, stdout_open,
                   unwinding, exit_code, start_result, signals, term_sent, stop_calls>>

(***************************************************************************)
(* SIGINT or SIGTERM.  Python runs the handler on the main thread, on top  *)
(* of whatever the main flow is doing, so the handler's stop_daemon() is   *)
(* one step.  held: the main flow holds the handle's wait lock at that     *)
(* moment, as it does while blocked in wait() and, now and then, while     *)
(* polling in wait(timeout=5).                                             *)
(***************************************************************************)
\* sys.exit(0) raised where the main flow stands: the bare "except:" of the
\* poll loop swallows it, the request loop unwinds through "finally", and
\* anywhere else it ends the process.
SystemExit ==
    CASE pc = "probe" ->
            /\ pc' = "sleep"
            /\ UNCHANGED <<unwinding, exit_code, line, prev_kind, prev_tools,
                         http, http_calls, reply, written>>
      [] pc \in {"read", "handling", "http"} ->
            /\ LeaveLoop("SystemExit")
            /\ http' = NoHttp
            /\ reply' = NoOutcome
            /\ UNCHANGED exit_code
      [] OTHER ->
            /\ pc' = "exited"
            /\ exit_code' = 0
            /\ UNCHANGED <<unwinding, line, prev_kind, prev_tools,
                         http, http_calls, reply, written>>

\* The handler's terminate(), its count of signals sent.
HandlerTerminate(held) ==
    term_sent' = IF held \/ proc = "running" THEN term_sent + 1 ELSE term_sent

\* bridge: signal_handler = stop_daemon(); sys.exit(0)
bridge_signal_handler(held) ==
    IF daemon_process = None
    THEN /\ SystemExit
         /\ UNCHANGED <<proc, term_sent>>
    ELSE IF held
    THEN /\ HandlerTerminate(held)
         /\ proc' = "dead"
         /\ pc' = "deadlock"
         /\ UNCHANGED <<unwinding, exit_code, line, prev_kind, prev_tools,
                         http, http_calls, reply, written>>
    ELSE /\ HandlerTerminate(held)
         /\ proc' = "reaped"
         /\ SystemExit

\* wrapper: lambda s, f: self.stop_daemon(), with terminate(); wait()
wrapper_signal_handler(held) ==
    /\ IF daemon_process = None
       THEN UNCHANGED <<proc, term_sent, pc>>
       ELSE IF held
       THEN /\ HandlerTerminate(held)
            /\ pc' = "deadlock"
            /\ UNCHANGED proc
       ELSE /\ HandlerTerminate(held)
            /\ IF proc = "running" /\ stubborn
               THEN pc' = "blocked" /\ UNCHANGED proc
               ELSE proc' = "reaped" /\ UNCHANGED pc
    /\ UNCHANGED <<unwinding, exit_code, line, prev_kind, prev_tools,
                         http, http_calls, reply, written>>

\* package: lambda s, f: self.stop_daemon(), with terminate();
\* wait(timeout=5); on TimeoutExpired kill()
package_signal_handler(held) ==
    /\ IF daemon_process = None
       THEN UNCHANGED <<proc, term_sent>>
       ELSE /\ HandlerTerminate(held)
            /\ IF held
               THEN proc' = "dead"
               ELSE IF proc = "running"
               THEN \/ ~stubborn /\ proc' = "reaped"
                    \/ proc' = "dead"
               ELSE proc' = "reaped"
    /\ UNCHANGED <<pc, unwinding, exit_code, line, prev_kind, prev_tools,
                         http, http_calls, reply, written>>

Signal ==
    /\ pc \notin {"constructed", "exited", "deadlock", "blocked"}
    /\ signals < MaxSignals
    /\ signals' = signals + 1
    /\ stop_calls' = stop_calls + 1
    /\ \E held \in BOOLEAN :
          /\ pc = "wait_block" => held
          /\ held => pc \in {"wait_block", "wait_timed"}
          /\ CASE variant = "bridge" -> bridge_signal_handler(held)
               [] variant = "wrapper" -> wrapper_signal_handler(held)
               [] variant = "package" -> package_signal_handler(held)
    /\ UNCHANGED <<envVars, lines_read, daemon_process, attempt, initialized, stdout_open,
                   start_result>>

Next ==
    \/ InstallHandlers
    \/ Spawn
    \/ Probe
    \/ Sleep
    \/ ReadLine
    \/ Dispatch
    \/ HttpReply
    \/ ClientClosesStdout
    \/ StopBegin
    \/ WaitTimed
    \/ WaitBlock
    \/ DaemonExit
    \/ Signal

Spec == Init /\ [][Next]_vars

TypeOK ==
    /\ pc \in {"constructed", "spawn", "probe", "sleep", "read", "handling", "http", "stop",
               "wait_timed", "wait_block", "exited", "deadlock", "blocked"}
    /\ proc \in {"none", "running", "dead", "reaped"}
    /\ attempt \in 0..ProbeLimit(variant)
    /\ Len(written) <= 1
    /\ http_calls \in 0..1
    /\ exit_code \in {-1, 0, 1}

(***************************************************************************)
(* The same program under the scheduling Python guarantees: the main flow  *)
(* takes its next step when it has one, and a daemon that was sent SIGTERM *)
(* and honours it exits.  Nothing obliges the client to send a line, to    *)
(* close stdin, or to send a signal.                                       *)
(***************************************************************************)
MainFlowStep ==
    \/ InstallHandlers
    \/ Spawn
    \/ Probe
    \/ Sleep
    \/ Dispatch
    \/ HttpReply
    \/ StopBegin
    \/ WaitTimed
    \/ WaitBlock

FairSpec ==
    /\ Init /\ [][Next]_vars
    /\ WF_vars(MainFlowStep)
    /\ WF_vars(DaemonExit /\ term_sent > 0)

(***************************************************************************)
(* Properties.                                                             *)
(***************************************************************************)
InLoopHandling == {"handling", "http"}
Recognized(l) == l.t = "object" /\ MethodOf(l.req) \in RecognizedMethods
Malformed(l) == l.t \in {"blank", "badjson"}
IsError(response, code, prefix) ==
    /\ DOMAIN response = {"jsonrpc", "id", "error"}
    /\ response.error.code = code
    /\ response.error.message[1] = prefix

\* C1: on every path by which the process exits after start_daemon() has
\* spawned the daemon, the daemon is no longer running at exit.
C1_DaemonStoppedAtExit ==
    (pc = "exited" /\ daemon_process # None) => proc # "running"

\* C2: handling an input line that is a JSON object with a recognized method
\* always ends with exactly one response line written, carrying the
\* request's id (null when it has none).
C2_ExactlyOneResponse ==
    [][(pc \in InLoopHandling /\ Recognized(line) /\ pc' \notin InLoopHandling)
         => /\ Len(written') = 1
            /\ written'[1].id = Get(line.req, "id", None)]_vars

\* C2, amended: handling such a line ends with exactly one response line
\* carrying the request's id, unless it is cut short before the write by a
\* SIGINT/SIGTERM or the write to stdout fails, and then no line is written;
\* until it ends nothing is written.
C2_OneResponseUnlessCutShort ==
    [][(pc \in InLoopHandling /\ Recognized(line))
         => \/ /\ pc' \in InLoopHandling
               /\ line' = line
               /\ written' = <<>>
            \/ /\ pc' = "read"
               /\ line' = line
               /\ Len(written') = 1
               /\ written'[1].id = Get(line.req, "id", None)
            \/ /\ signals' = signals + 1
               /\ pc' \in {"stop", "blocked"}
               /\ written' = <<>>
            \/ /\ ~stdout_open
               /\ pc' = "stop"
               /\ unwinding' = "fault"
               /\ written' = <<>>]_vars

\* C2 witness: a tools/call whose daemon call got no HTTP response has been
\* answered with one line carrying the request's id.
C2_Witness ==
    /\ pc = "read"
    /\ Recognized(line)
    /\ MethodOf(line.req) = "tools/call"
    /\ reply.t = "fault"
    /\ Len(written) = 1
    /\ "id" \in DOMAIN line.req
    /\ written[1].id = line.req["id"]

\* C3: reading a line that is blank or not JSON writes no response line and
\* leaves the loop running, about to read the next line; nothing is written
\* for that line later either.
C3_MalformedLineSkipped ==
    [][/\ (pc = "read" /\ lines_read' = lines_read + 1 /\ Malformed(line'))
            => /\ written' = <<>>
               /\ pc' = "read"
               /\ unwinding' = unwinding
               /\ exit_code' = exit_code
               /\ http' = NoHttp
       /\ (Malformed(line) /\ line' = line) => written' = <<>>]_vars

\* C3 witness: after a skipped line the next line, a valid request, has been
\* read and answered.
C3_Witness ==
    /\ prev_kind = "skipped"
    /\ Recognized(line)
    /\ Len(written) = 1
    /\ pc = "read"

\* C4: when SIGINT or SIGTERM has been delivered during start-up polling or
\* while the request loop waits for or handles input, and the handler has
\* run, the bridge process eventually exits, whether or not stdin ever ends.
C4_SignalLeadsToExit ==
    (signals > 0 /\ pc \in {"probe", "sleep", "read", "handling", "http"}) ~> (pc = "exited")

\* C5: when start_daemon() returns failure (the probes are used up without a
\* 200, or the spawn raised), run() returns a non-zero status, no stdin line
\* has been read and no response line written; the request loop runs only
\* after start_daemon() returned success.
C5_StartFailureBeforeStdio ==
    /\ start_result = "failed"
          => /\ pc = "exited"
             /\ exit_code # 0
             /\ lines_read = 0
             /\ line = NoLine
             /\ written = <<>>
    /\ pc \in {"read", "handling", "http"} => start_result = "ok"

\* C5 witness: the probes were used up with the daemon spawned, and the
\* process has exited.
C5_Witness ==
    /\ start_result = "failed"
    /\ daemon_process # None
    /\ pc = "exited"

\* C6: stop_daemon() entered again, from the handler on top of the main
\* flow's own stop_daemon() or after it, never deadlocks and leaves no daemon
\* running.
C6_StopDaemonReentrant ==
    /\ pc # "deadlock"
    /\ (pc = "exited" /\ stop_calls >= 1) => proc # "running"

\* C7: a tools/call whose daemon call failed (no HTTP response, an HTTP
\* error status, or a reply with an "error" field) is answered with error
\* -32603, "Tool call failed: ..." and the request's id.
CallFailed(o) ==
    \/ o.t = "fault"
    \/ o.t = "http" /\ o.status # 200
    \/ o.t = "http" /\ o.body.t = "dict" /\ "error" \in DOMAIN o.body.d

C7_FailedCallIsError ==
    (/\ line.t = "object"
     /\ MethodOf(line.req) = "tools/call"
     /\ Len(written) = 1
     /\ CallFailed(reply))
        => /\ IsError(written[1], InternalErrorCode, "Tool call failed: ")
           /\ written[1].id = Get(line.req, "id", None)

\* C8: a request object whose method is none of initialize, tools/list and
\* tools/call (or is missing) makes no daemon call and is answered with error
\* -32601, a message naming the method, and the request's id.
C8_UnknownMethod ==
    (line.t = "object" /\ MethodOf(line.req) \notin RecognizedMethods)
        => /\ pc # "http"
           /\ http = NoHttp
           /\ reply = NoOutcome
           /\ Len(written) = 1
                 => /\ IsError(written[1], MethodNotFoundCode, "Method not found: ")
                    /\ written[1].error.message[2] = MethodOf(line.req)
                    /\ written[1].id = Get(line.req, "id", None)

\* C8 witness: a request with no method at all has been answered.
C8_Witness ==
    /\ line.t = "object"
    /\ "method" \notin DOMAIN line.req
    /\ Len(written) = 1

\* C9: every initialize is answered with the fixed descriptor, so any two of
\* them get the same result, whatever was handled before and whatever state
\* the daemon is in.
C9_InitializeIdempotent ==
    (line.t = "object" /\ MethodOf(line.req) = "initialize" /\ Len(written) = 1)
        => /\ DOMAIN written[1] = {"jsonrpc", "id", "result"}
           /\ written[1].result = InitializeResult
           /\ written[1].result.protocolVersion = "2024-11-05"
           /\ written[1].result.serverInfo = [name |-> "Code Indexer", version |-> "1.1.0"]

\* C9 witness: a second initialize in a row has been answered, with the
\* daemon gone.
C9_Witness ==
    /\ prev_kind = "initialize"
    /\ line.t = "object"
    /\ MethodOf(line.req) = "initialize"
    /\ Len(written) = 1
    /\ proc # "running"

\* C10: after a successful tools/list the result holds one descriptor per
\* daemon tool record, in the daemon's order, each with exactly the keys
\* name, description and inputSchema, inputSchema being the record's
\* input_schema or the empty object schema when it has none.
ListSucceeded ==
    /\ line.t = "object"
    /\ MethodOf(line.req) = "tools/list"
    /\ Len(written) = 1
    /\ reply.t = "http"
    /\ reply.status = 200
    /\ reply.body.t = "dict"
    /\ "error" \notin DOMAIN reply.body.d

C10_ToolsHaveProtocolShape ==
    ListSucceeded
        => LET daemon_tools == Get(reply.body.d, "tools", <<>>)
               listed == written[1].result.tools
           IN /\ Len(listed) = Len(daemon_tools)
              /\ \A i \in 1..Len(listed) :
                    /\ DOMAIN listed[i] = {"name", "description", "inputSchema"}
                    /\ listed[i].name = Get(daemon_tools[i], "name", "")
                    /\ listed[i].inputSchema = Get(daemon_tools[i], "input_schema", EmptySchema)

\* C11: a tools/call sends the daemon exactly {tool: params.name,
\* arguments: params.arguments}, the arguments being the empty mapping when
\* the request gives none; and when the daemon's reply is a success the
\* result is a content list of one text block whose text is the serialized
\* result field of the reply, "{}" when the reply has none.
CallSucceeded(o) ==
    /\ o.t = "http"
    /\ o.status = 200
    /\ o.body.t = "dict"
    /\ "error" \notin DOMAIN o.body.d

C11_CallBodyAndTextResult ==
    /\ (pc = "http" /\ MethodOf(line.req) = "tools/call")
          => LET given == IF "params" \in DOMAIN line.req
                          THEN line.req["params"].d ELSE EmptyDict
             IN /\ http.path = "/api/call"
                /\ DOMAIN http.data = {"tool", "arguments"}
                /\ http.data.tool = IF "name" \in DOMAIN given THEN given["name"] ELSE None
                /\ http.data.arguments =
                      IF "arguments" \in DOMAIN given THEN given["arguments"] ELSE {}
    /\ (/\ line.t = "object"
        /\ MethodOf(line.req) = "tools/call"
        /\ Len(written) = 1
        /\ CallSucceeded(reply))
          => /\ DOMAIN written[1] = {"jsonrpc", "id", "result"}
             /\ DOMAIN written[1].result = {"content"}
             /\ Len(written[1].result.content) = 1
             /\ written[1].result.content[1].type = "text"
             /\ written[1].result.content[1].text =
                   IF "result" \in DOMAIN reply.body.d
                   THEN JsonDumpsIndent2(reply.body.d["result"])
                   ELSE "{}"

\* C11 witness: a tools/call that gave no arguments has been answered from a
\* daemon reply that has a result field.
C11_Witness ==
    /\ pc = "read"
    /\ line.t = "object"
    /\ MethodOf(line.req) = "tools/call"
    /\ CallSucceeded(reply)
    /\ "arguments" \notin DOMAIN ParamsOf(line.req).d
    /\ "result" \in DOMAIN reply.body.d
    /\ Len(written) = 1
    /\ "result" \in DOMAIN written[1]

\* C12: every response line written has an id field and exactly one of the
\* fields result and error.
C12_ResultXorError ==
    \A i \in 1..Len(written) :
        /\ "id" \in DOMAIN written[i]
        /\ ("result" \in DOMAIN written[i]) # ("error" \in DOMAIN written[i])

\* C12 witness: the error response of run()'s "except Exception" has been
\* written for a line that is JSON but no object.
C12_Witness ==
    /\ line.t = "nonobject"
    /\ Len(written) = 1
    /\ "error" \in DOMAIN written[1]

\* C13: in one session at most one daemon subprocess is spawned and owned:
\* start_daemon() is entered once, from the start of run(); the handle is
\* set, and a child comes to run, only by its one spawn, when there is no
\* handle and no child yet; no later step sets the handle again or starts
\* another child.
C13_AtMostOneDaemon ==
    [][/\ (pc' = "spawn" /\ pc # "spawn") => pc = "constructed"
       /\ pc' = "constructed" => pc = "constructed"
       /\ start_result # "pending" => start_result' = start_result
       /\ (daemon_process' # daemon_process \/ (proc' = "running" /\ proc # "running"))
             => /\ pc = "spawn"
                /\ daemon_process = None
                /\ proc = "none"
                /\ start_result = "pending"]_vars

\* C13 witness: a session that spawned its daemon, read a line, took a
\* signal and stopped the daemon has exited.
C13_Witness ==
    /\ pc = "exited"
    /\ daemon_process # None
    /\ start_result = "ok"
    /\ lines_read >= 1
    /\ signals >= 1
    /\ proc = "reaped"

\* C14: when the process has exited after a successful start, stop_daemon()
\* has been entered exactly once.
C14_StopDaemonOnce ==
    (pc = "exited" /\ start_result = "ok") => stop_calls = 1

\* C15: in one session the terminate signal is sent to the daemon at most
\* once, from whichever paths stop_daemon() is reached.
C15_TerminateSentOnce ==
    term_sent <= 1

\* C16: stop_daemon() entered by the main flow and not interrupted by a
\* signal always returns, and the daemon is not running once it has, even
\* when the daemon ignores the terminate signal.
C16_StopDaemonReturns ==
    (pc = "stop" /\ signals = 0) ~> ((pc = "exited" /\ proc # "running") \/ signals > 0)

\* C17: requests are handled strictly one after the other.  A daemon call
\* starts only when none is in flight; a line is read only when no call is
\* in flight and the line before it was skipped or has had its response
\* written; and a response is written only as the one line for the input
\* line in hand, carrying that request's id (null for a line that is no
\* object), so responses come out in the order of their requests.
C17_StrictlySequential ==
    [][/\ (http' # NoHttp /\ http' # http) => (http = NoHttp /\ pc = "handling")
       /\ lines_read' # lines_read
             => /\ lines_read' = lines_read + 1
                /\ pc = "read"
                /\ http = NoHttp
                /\ line = NoLine \/ Skipped(line) \/ Len(written) = 1
       /\ (written' # written /\ written' # <<>>)
             => /\ written = <<>>
                /\ Len(written') = 1
                /\ line' = line
                /\ lines_read' = lines_read
                /\ http' = NoHttp
                /\ written'[1].id = IF line.t = "object"
                                    THEN Get(line.req, "id", None) ELSE None]_vars

\* C17 witness: the second of two requests in a row has been answered after
\* its own daemon call, the first having been answered before it was read.
C17_Witness ==
    /\ lines_read >= 2
    /\ prev_kind = "other"
    /\ pc = "read"
    /\ reply.t = "http"
    /\ Len(written) = 1

\* C18: a failure of one request never ends the session.  A step that
\* writes an error response leaves the loop about to read the next line,
\* and the request loop is left only at end of input or on the delivery of
\* a termination signal.
LoopStates == {"read", "handling", "http"}
EndOfInput == pc = "read" /\ pc' = "stop" /\ unwinding' = "none" /\ signals' = signals
SignalDelivered == signals' = signals + 1
ErrorWritten ==
    /\ written' # written
    /\ Len(written') = 1
    /\ "error" \in DOMAIN written'[1]

C18_FailureNeverEndsSession ==
    [][/\ ErrorWritten => (pc' = "read" /\ exit_code' = -1 /\ unwinding' = "none")
       /\ (pc \in LoopStates /\ pc' \notin LoopStates)
             => EndOfInput \/ SignalDelivered]_vars

\* C18, amended: a step that writes an error response leaves the loop about
\* to read the next line, and the request loop is left only at end of
\* input, on the delivery of a termination signal, or when the write of a
\* response to stdout fails (the client has closed the pipe), in which case
\* nothing is written and the fault leaves run() through "finally".
StdoutWriteFailed ==
    /\ ~stdout_open
    /\ pc \in {"handling", "http"}
    /\ pc' = "stop"
    /\ unwinding' = "fault"
    /\ written' = <<>>
    /\ signals' = signals

C18_LoopEndsOnlyOnEofSignalOrBrokenStdout ==
    [][/\ ErrorWritten => (pc' = "read" /\ exit_code' = -1 /\ unwinding' = "none")
       /\ (pc \in LoopStates /\ pc' \notin LoopStates)
             => EndOfInput \/ SignalDelivered \/ StdoutWriteFailed]_vars

\* C18 witness: a request whose daemon call got no HTTP response has been
\* answered with an error and the loop is about to read the next line.
C18_Witness ==
    /\ pc = "read"
    /\ lines_read >= 1
    /\ reply.t = "fault"
    /\ Len(written) = 1
    /\ "error" \in DOMAIN written[1]
    /\ unwinding = "none"
    /\ exit_code = -1

\* C19: when handling a parsed line raises a fault no handler catches (the
\* line is JSON but no object), the step that ends its handling writes
\* exactly one error response, with id null and code -32603, and leaves the
\* loop about to read the next line.
IsInternalError(response) ==
    /\ IsError(response, InternalErrorCode, "Internal error: ")
    /\ response.id = None

C19_UncaughtFaultAnswered ==
    [][(pc = "handling" /\ line.t = "nonobject" /\ (pc' # pc \/ written' # written))
         => /\ Len(written') = 1
            /\ IsInternalError(written'[1])
            /\ pc' = "read"]_vars

\* C19, amended: handling such a line ends with exactly one error response,
\* id null and code -32603, and the loop about to read the next line, unless
\* a SIGINT/SIGTERM is delivered before the response is written or the
\* write to stdout fails, and then no line is written for it.
C19_UncaughtFaultAnsweredUnlessCutShort ==
    [][(pc = "handling" /\ line.t = "nonobject")
         => \/ /\ pc' = "handling"
               /\ line' = line
               /\ written' = <<>>
            \/ /\ pc' = "read"
               /\ line' = line
               /\ Len(written') = 1
               /\ IsInternalError(written'[1])
               /\ unwinding' = "none"
            \/ /\ SignalDelivered
               /\ pc' \in {"stop", "blocked"}
               /\ written' = <<>>
            \/ StdoutWriteFailed]_vars

\* C19 witness: a line that is JSON but no object has been answered with
\* the internal error and the loop is about to read the next line.
C19_Witness ==
    /\ pc = "read"
    /\ line.t = "nonobject"
    /\ Len(written) = 1
    /\ IsInternalError(written[1])
    /\ stdout_open

\* C20: a tools/list whose daemon call failed (no HTTP response, an HTTP
\* error status, or a reply with an "error" field) is answered with error
\* -32603, "Failed to get tools: ..." and the request's id, in every variant.
C20_FailedListIsError ==
    (/\ line.t = "object"
     /\ MethodOf(line.req) = "tools/list"
     /\ Len(written) = 1
     /\ CallFailed(reply))
        => /\ IsError(written[1], InternalErrorCode, "Failed to get tools: ")
           /\ written[1].id = Get(line.req, "id", None)

\* C21: the tool catalogue is never cached.  Every tools/list that is
\* answered has made its own fetch, and when the daemon answered that fetch
\* with a catalogue the response lists that catalogue: as many tools, with
\* the same names in the same order, whatever an earlier tools/list got.
C21_CatalogueFetchedEveryTime ==
    /\ (line.t = "object" /\ MethodOf(line.req) = "tools/list" /\ Len(written) = 1)
          => (http_calls = 1 /\ reply # NoOutcome)
    /\ ListSucceeded
          => LET daemon_tools == Get(reply.body.d, "tools", <<>>)
                 listed == written[1].result.tools
             IN /\ Len(listed) = Len(daemon_tools)
                /\ \A i \in 1..Len(listed) :
                      listed[i].name = Get(daemon_tools[i], "name", "")

\* C21 witness: two tools/list requests in a row, the daemon advertising a
\* different number of tools the second time, and the second response
\* listing the second catalogue.
C21_Witness ==
    /\ pc = "read"
    /\ prev_tools >= 0
    /\ ListSucceeded
    /\ Len(Get(reply.body.d, "tools", <<>>)) # prev_tools
    /\ Len(written[1].result.tools) = Len(Get(reply.body.d, "tools", <<>>))

\* C22: the step that handles an initialize makes no daemon HTTP call and
\* leaves the daemon handle, the daemon subprocess, what was sent to it and
\* the outcome of start-up as they were; it writes the response and may set
\* the initialized flag.
C22_InitializeTouchesNoDaemon ==
    [][(/\ pc = "handling"
        /\ line.t = "object"
        /\ MethodOf(line.req) = "initialize"
        /\ pc' # pc
        /\ signals' = signals)
         => /\ http = NoHttp
            /\ http' = NoHttp
            /\ http_calls' = 0
            /\ reply' = NoOutcome
            /\ daemon_process' = daemon_process
            /\ proc' = proc
            /\ term_sent' = term_sent
            /\ stop_calls' = stop_calls
            /\ start_result' = start_result
            /\ envVars' = envVars
            /\ initialized => initialized']_vars

\* C22 witness: the bridge has answered an initialize, set its flag, made
\* no daemon call, and its daemon is running as before.
C22_Witness ==
    /\ pc = "read"
    /\ variant = "bridge"
    /\ line.t = "object"
    /\ MethodOf(line.req) = "initialize"
    /\ Len(written) = 1
    /\ initialized
    /\ http_calls = 0
    /\ proc = "running"
    /\ term_sent = 0

\* C23: no bridge state crosses requests.  The response written for a
\* request is the one its method's handler gives for that request and the
\* daemon's reply to it, in every history of earlier lines and whether or
\* not an initialize has been handled before.
ResponseFor(v, request, outcome) ==
    CASE MethodOf(request) = "initialize" -> Success(Get(request, "id", None), InitializeResult)
      [] MethodOf(request) = "tools/list" -> handle_tools_list(v, request, outcome)
      [] MethodOf(request) = "tools/call" -> handle_tool_call(v, request, outcome)
      [] OTHER -> method_not_found(request)

C23_ResponseFromRequestAndReplyOnly ==
    (line.t = "object" /\ Len(written) = 1)
        => written[1] = ResponseFor(variant, line.req, reply)

\* C23 witness: the bridge has answered a tools/list with the daemon's
\* catalogue right after an initialize, its flag set.
C23_Witness ==
    /\ pc = "read"
    /\ variant = "bridge"
    /\ initialized
    /\ prev_kind = "initialize"
    /\ ListSucceeded
    /\ written[1] = bridge_handle_tools_list(line.req, reply)

\* C24: start_daemon() ends after a bounded number of health probes: at
\* most 60 in the bridge and the package, 30 in the wrapper.  Each round of
\* the poll loop moves on to the next; the first probe answered 200 returns
\* success and no probe follows it; failure after the spawn is returned
\* exactly when the last round is used up, and run() then exits.
C24_BoundedProbes ==
    [][LET limit == IF variant = "wrapper" THEN 30 ELSE 60
       IN /\ pc \in {"probe", "sleep"} => (attempt < limit /\ start_result = "pending")
          /\ (pc = "probe" /\ start_result' = "ok") => (pc' = "read" /\ lines_read' = 0)
          /\ start_result # "pending"
                => (pc' \notin {"spawn", "probe", "sleep"} /\ start_result' = start_result)
          /\ (pc \in {"probe", "sleep"} /\ start_result' = "failed")
                => (attempt + 1 = limit /\ pc' = "exited")
          /\ (/\ pc \in {"probe", "sleep"}
              /\ pc' \in {"probe", "sleep"}
              /\ pc' # pc \/ attempt' # attempt)
                => \/ attempt' = attempt + 1 /\ pc' = "probe"
                   \/ attempt' = attempt /\ pc = "probe" /\ pc' = "sleep"]_vars

\* C24 witness: start_daemon() has returned success on a probe answered by
\* the daemon it spawned, and the request loop is about to read.
C24_Witness ==
    /\ pc = "read"
    /\ start_result = "ok"
    /\ attempt = 0
    /\ lines_read = 0
    /\ signals = 0
    /\ ~foreign
    /\ proc = "running"

\* C25: once a SIGINT/SIGTERM has been handled, the bridge completes no
\* further health probe, issues no further daemon call, reads no further
\* input line and writes no further response line.
C25_QuietAfterSignal ==
    [][signals > 0
         => /\ lines_read' = lines_read
            /\ http_calls' <= http_calls
            /\ written' = written \/ written' = <<>>
            /\ ~(/\ pc = "probe"
                 /\ signals' = signals
                 /\ pc' # pc \/ attempt' # attempt \/ start_result' # start_result)]_vars

\* C26: start_daemon() returns success only while the subprocess it spawned
\* is running.
C26_SuccessMeansOwnDaemon ==
    [][(start_result = "pending" /\ start_result' = "ok") => proc = "running"]_vars

\* C27: a request that has been answered made exactly one daemon HTTP call
\* when its method is tools/list or tools/call and none otherwise; the call
\* in flight is the one call of its request, to /api/tools for tools/list
\* and to /api/call for tools/call.
C27_OneCallPerRequest ==
    /\ (line.t = "object" /\ Len(written) = 1)
          => http_calls = IF MethodOf(line.req) \in {"tools/list", "tools/call"} THEN 1 ELSE 0
    /\ pc = "http"
          => /\ http_calls = 1
             /\ http.path = IF MethodOf(line.req) = "tools/list"
                            THEN "/api/tools" ELSE "/api/call"

\* C27, amended: as C27, but a tools/call whose params is not an object is
\* answered with its error without any daemon call.
C27_OneCallPerWellFormedRequest ==
    /\ (line.t = "object" /\ Len(written) = 1)
          => http_calls =
                IF \/ MethodOf(line.req) = "tools/list"
                   \/ /\ MethodOf(line.req) = "tools/call"
                      /\ ("params" \in DOMAIN line.req => line.req["params"].t = "dict")
                THEN 1 ELSE 0
    /\ pc = "http"
          => /\ http_calls = 1
             /\ http.path = IF MethodOf(line.req) = "tools/list"
                            THEN "/api/tools" ELSE "/api/call"

\* C27 witness: a tools/list whose one daemon call got no HTTP response has
\* been answered, the call not made again.
C27_Witness ==
    /\ pc = "read"
    /\ line.t = "object"
    /\ MethodOf(line.req) = "tools/list"
    /\ reply.t = "fault"
    /\ http_calls = 1
    /\ Len(written) = 1

====
